---- MODULE Spec2Model ----
(***************************************************************************)
(* Model of pssst-chat.py: the PssstChat terminal session.                 *)
(*                                                                         *)
(* Two threads of control share the instance: the foreground thread that   *)
(* executes main() / PssstChat.run() / PssstChat.exit(), and the daemon    *)
(* thread that executes PssstChat.__thread().  The program takes no lock;  *)
(* the interpreter switches threads between two operations on shared       *)
(* objects (a list method, a curses call), so each such operation is one   *)
(* step of the model.  Text is a sequence of one-character strings; the    *)
(* value getstr() returns is text that compares with 'exit' and matches    *)
(* the pattern of run().  The screen is followed as far as addstr() can    *)
(* fail on it; its cursor and the rows a render paints are followed in the *)
(* behaviours of ScreenSpec only (variable tracking), because they decide  *)
(* nothing the program does.                                               *)
(***************************************************************************)
EXTENDS Integers, Sequences, FiniteSets, TLC

(***************************************************************************)
(* Bounds of the model.                                                    *)
(***************************************************************************)
ScreenHeight == 3   \* rows reported by getmaxyx()
ScreenWidth == 20   \* columns reported by getmaxyx()
MaxInputs == 1      \* input lines other than exit / blank the user types
MaxPulls == 1       \* pull() calls that fail or return messages
MaxWrapWidth == 4   \* widest screen of WrapSpec
MaxMessage == 6     \* bytes of the longest message of WrapSpec

\* Heights getmaxyx() reports: the smallest screen with a title row and a
\* prompt row, and the screen of the bound.
ScreenHeights == {2, ScreenHeight}

(***************************************************************************)
(* Text.                                                                   *)
(***************************************************************************)
Lower == <<"a","b","c","d","e","f","g","h","i","j","k","l","m",
           "n","o","p","q","r","s","t","u","v","w","x","y","z">>
Upper == <<"A","B","C","D","E","F","G","H","I","J","K","L","M",
           "N","O","P","Q","R","S","T","U","V","W","X","Y","Z">>
Digits == <<"0","1","2","3","4","5","6","7","8","9">>

Range(s) == {s[i] : i \in DOMAIN s}

RECURSIVE Rep(_, _)
Rep(c, n) == IF n <= 0 THEN <<>> ELSE <<c>> \o Rep(c, n - 1)

IsPrefix(s, t) == Len(s) <= Len(t) /\ SubSeq(t, 1, Len(s)) = s

\* \w of the re module: letters, digits and the underscore.
WordChars == Range(Lower) \cup Range(Upper) \cup Range(Digits) \cup {"_"}
IsWord(c) == c \in WordChars

\* Whitespace as str.strip() understands it.
IsSpace(c) == c \in {" ", "\t", "\n", "\r"}

\* str.lower() on one character.
LowerChar(c) ==
    IF c \in Range(Upper)
    THEN Lower[CHOOSE i \in DOMAIN Upper : Upper[i] = c]
    ELSE c

\* str.lower()
StrLower(s) == [i \in DOMAIN s |-> LowerChar(s[i])]

\* str.strip(): drop leading and trailing whitespace.
RECURSIVE LStrip(_)
LStrip(s) == IF s # <<>> /\ IsSpace(Head(s)) THEN LStrip(Tail(s)) ELSE s

RECURSIVE RStrip(_)
RStrip(s) ==
    IF s # <<>> /\ IsSpace(s[Len(s)]) THEN RStrip(SubSeq(s, 1, Len(s) - 1))
    ELSE s

Strip(s) == RStrip(LStrip(s))

\* PssstChat.INTRO
INTRO ==
    <<"T","y","p","e"," ","'","U","S","E","R","N","A","M","E"," ",".",".",".",
      "'"," ","t","o"," ","s","e","n","d"," ","a"," ","m","e","s","s","a","g",
      "e"," ","a","n","d"," ","'","e","x","i","t","'"," ","t","o"," ","e","x",
      "i","t",".">>

\* "Error: %s" % ex
ErrorLine(cause) == <<"E","r","r","o","r",":"," ">> \o cause

\* "Error: Unknown command"
UnknownCommand ==
    <<"E","r","r","o","r",":"," ","U","n","k","n","o","w","n"," ",
      "c","o","m","m","a","n","d">>

\* "%s> " % repr(self.pssst.user), for the user pssst.me
PromptText == <<"p","s","s","s","t",".","m","e",">"," ">>

PssstPrefix == <<"p","s","s","s","t",".">>

ExitWord == <<"e","x","i","t">>

(***************************************************************************)
(* Command classification, run() lines 234-247.                            *)
(***************************************************************************)
MinReceiver == 2
MaxReceiver == 63

\* Faulty variant of the test below: line.lower().startswith('exit')
IsExitPrefixed(ln) == IsPrefix(ExitWord, StrLower(ln))

\* line.lower() == 'exit'
IsExit(ln) == StrLower(ln) = ExitWord

\* Faulty variant of the pattern below: \w{1,63} for the receiver and no
\* newline test.
MatchesFromOne(ln, p) ==
    \E n \in 1..MaxReceiver :
        /\ p + n <= Len(ln)
        /\ \A i \in (p + 1)..(p + n) : IsWord(ln[i])
        /\ \E k \in 1..(Len(ln) - p - n) :
              /\ \A i \in (p + n + 1)..(p + n + k) : ~IsWord(ln[i])
              /\ p + n + k < Len(ln)

\* re.match("^(pssst\.)?\w{2,63}\W+.+$", line): some split of the line into
\* optional prefix, n word characters, k >= 1 non-word characters and a
\* non-empty rest without a newline.
MatchesFrom(ln, p) ==
    \E n \in MinReceiver..MaxReceiver :
        /\ p + n <= Len(ln)
        /\ \A i \in (p + 1)..(p + n) : IsWord(ln[i])
        /\ \E k \in 1..(Len(ln) - p - n) :
              /\ \A i \in (p + n + 1)..(p + n + k) : ~IsWord(ln[i])
              /\ p + n + k < Len(ln)
              /\ \A i \in (p + n + k + 1)..Len(ln) : ln[i] # "\n"

MatchesPush(ln) ==
    \/ MatchesFrom(ln, 0)
    \/ IsPrefix(PssstPrefix, ln) /\ MatchesFrom(ln, Len(PssstPrefix))

\* line.split(" ", 1): cut at the first space character, if there is one.
SplitFirstSpace(ln) ==
    LET sp == {i \in DOMAIN ln : ln[i] = " "}
    IN  IF sp = {} THEN <<ln>>
        ELSE LET f == CHOOSE i \in sp : \A j \in sp : i <= j
             IN  <<SubSeq(ln, 1, f - 1), SubSeq(ln, f + 1, Len(ln))>>

(***************************************************************************)
(* Wrapping and decoding, __thread() lines 179-182.                        *)
(***************************************************************************)
\* data.decode("utf-8") on a sequence of bytes: an ASCII byte is its
\* character, the pair C3 A9 is one character, any other byte is malformed.
ValidUtf8(bs) ==
    \A i \in DOMAIN bs :
        /\ bs[i] # "\\xff"
        /\ bs[i] = "\\xc3" => (i < Len(bs) /\ bs[i + 1] = "\\xa9")
        /\ bs[i] = "\\xa9" => (i > 1 /\ bs[i - 1] = "\\xc3")

RECURSIVE Decode(_)
Decode(bs) ==
    IF bs = <<>> THEN <<>>
    ELSE IF Head(bs) = "\\xc3" THEN <<"e'">> \o Decode(Tail(Tail(bs)))
    ELSE <<Head(bs)>> \o Decode(Tail(bs))

Min(a, b) == IF a <= b THEN a ELSE b

\* Faulty variant of the chunks below: range(0, len(data) - width + 1, width),
\* which leaves out a last chunk that is shorter than the width.
ChunksFloor(data, w) ==
    [j \in 1..(Len(data) \div w) |-> SubSeq(data, (j - 1) * w + 1, j * w)]

\* [data[i:i + width] for i in range(0, len(data), width)]
Chunks(data, w) ==
    LET n == (Len(data) + w - 1) \div w
    IN  [j \in 1..n |-> SubSeq(data, (j - 1) * w + 1, Min(j * w, Len(data)))]

\* Faulty variants of the += below: one that builds a new list from the
\* operand as first evaluated, one that adds the first line only.
InplaceAddCopy(cur, loaded, lines) == loaded \o lines
InplaceAddFirst(cur, loaded, lines) ==
    IF lines = <<>> THEN cur ELSE cur \o <<Head(lines)>>

\* self.buffer += lines: list.__iadd__ extends the list object in place, in
\* one step, and the name is then bound to the same object again.  `cur` is
\* the content of the list at the time of the extension, `loaded` its content
\* when the left operand was evaluated.
InplaceAdd(cur, loaded, lines) == cur \o lines

\* self.buffer[-(self.height - 2):]
Window(buf, h) ==
    LET n == h - 2
        start == IF n > 0 THEN (IF n >= Len(buf) THEN 1 ELSE Len(buf) - n + 1)
                 ELSE Min(0 - n, Len(buf)) + 1
    IN  SubSeq(buf, start, Len(buf))

(***************************************************************************)
(* What the collaborators and the user can supply.                         *)
(***************************************************************************)
Threads == {"fg", "bg"}

\* Causes carried by the exceptions of Pssst.push() and Pssst.pull().
ShortCause == <<"t","i","m","e","o","u","t">>
LongCause == Rep("x", 2 * ScreenWidth)
Causes == {ShortCause, LongCause}

\* Byte messages returned by Pssst.pull().
HiBytes == <<"h","i">>
CafeBytes == <<"c","a","f","\\xc3","\\xa9">>
BadBytes == <<"h","\\xff">>
LongBytes == [i \in 1..(ScreenWidth + 2) |-> Digits[(i % 10) + 1]]

PullResults ==
    [ok : {FALSE}, cause : Causes, msgs : {<<>>}] \cup
    [ok : {TRUE}, cause : {<<>>},
     msgs : {<<>>, <<HiBytes>>, <<LongBytes>>, <<CafeBytes, <<>>>>,
             <<BadBytes>>}]

\* Outcomes of Pssst.push(): it returns, or raises with a cause.
PushOutcomes ==
    [ok : {TRUE}, cause : {<<>>}] \cup [ok : {FALSE}, cause : Causes]

\* Lines the user can submit to getstr().
UserLines ==
    { <<>>,
      <<" "," ">>,
      <<"e","x","i","t">>,
      <<" ","E","x","i","T"," ">>,
      <<"e","x","i","t"," ","n","o","w">>,
      <<"a","l","i","c","e"," ","h","e","l","l","o"," ","t","h","e","r","e">>,
      <<"p","s","s","s","t",".","a","l","i","c","e",":"," ","h","i">>,
      <<"a","l","i","c","e",":","h","i">>,
      <<"a","b"," "," ","c">>,
      <<"a">>,
      <<"a"," ","h","i">>,
      <<"a","l","i","c","e">>,
      <<"a","l","i","c","e","!">>,
      Rep("a", MaxReceiver) \o <<" ","h","i">>,
      Rep("a", MaxReceiver + 1) \o <<" ","h","i">> }

\* What __prompt() and run() make of each of these lines: the stripped line,
\* the two tests of lines 238 and 242 and the result of the split of line
\* 243.  The table is worked out once.
LineTable ==
    [raw \in UserLines |->
        LET ln == Strip(raw)
        IN  [ln |-> ln, exit |-> IsExit(ln), match |-> MatchesPush(ln),
             parts |-> SplitFirstSpace(ln)]]

(***************************************************************************)
(* State.                                                                  *)
(***************************************************************************)
VARIABLES
    pc,        \* position of each thread
    buffer,    \* self.buffer
    halt,      \* self.halt
    height,    \* self.height
    width,     \* self.width
    term,      \* terminal mode: "shell", "curses", "endwin"
    msgs,      \* __thread(): messages of the current pull() not yet handled
    loaded,    \* __thread(): self.buffer as evaluated for the += of line 182
    chunks,    \* __thread(): the wrapped lines of the current message
    window,    \* __render(): window, per thread
    ry,        \* __render(): y, per thread
    line,      \* run(): line, until the line is dealt with
    pushed,    \* the call of Pssst.push() in progress, <<receiver, message>>
    placed,    \* batches added by line 182 so far: position and lines
    inputs,    \* number of lines typed that count against MaxInputs
    pulls,     \* number of pulls that count against MaxPulls
    pullFailed,\* the pull() of the current iteration of __thread() raised
    pushFailed,\* the last push() raised and the next prompt is not yet drawn
    lateWrite, \* a curses call of __thread() ran after __exit__()
    haltPulls, \* calls of pull() made by __thread() while halt was set
    tracking,  \* whether the behaviour follows cursor and painted
    cursor,    \* the cursor of self.screen: row, column, wrap pending
    rcursor,   \* __render(): cursor, per thread
    painted    \* rows of the screen that renders have written or cleared

vars == <<pc, buffer, halt, height, width, term, line, msgs, loaded,
          chunks, window, ry, pushed, placed, inputs, pulls,
          pullFailed, pushFailed, lateWrite, haltPulls, tracking, cursor,
          rcursor, painted>>

renderVars == <<window, ry>>
pollVars == <<msgs, loaded, chunks, pulls, pullFailed, haltPulls>>
inputVars == <<line, pushed, inputs, pushFailed>>
geometry == <<height, width>>
screenVars == <<tracking, cursor, rcursor, painted>>

\* A position of the cursor; wrapped is the pending wrap curses notes when a
\* write has filled the last column of a row.
Cell(y, x, w) == [y |-> y, x |-> x, wrapped |-> w]

\* __init__(), lines 68-70, for a profile that is supplied
Constructed ==
    /\ pc = [t \in Threads |-> IF t = "fg" THEN "enter" ELSE "unstarted"]
    /\ buffer = <<INTRO, <<>>>>
    /\ halt = FALSE
    /\ height = 0
    /\ width = 0
    /\ term = "shell"
    /\ msgs = <<>>
    /\ loaded = <<>>
    /\ chunks = <<>>
    /\ window = [t \in Threads |-> <<>>]
    /\ ry = [t \in Threads |-> 0]
    /\ line = <<>>
    /\ pushed = <<>>
    /\ placed = <<>>
    /\ inputs = 0
    /\ pulls = 0
    /\ pullFailed = FALSE
    /\ pushFailed = FALSE
    /\ lateWrite = FALSE
    /\ haltPulls = 0
    /\ cursor = Cell(0, 0, FALSE)
    /\ rcursor = [t \in Threads |-> <<0, 0>>]
    /\ painted = {}

Init == Constructed /\ tracking = FALSE

(***************************************************************************)
(* The curses screen.                                                      *)
(***************************************************************************)
\* addstr(y, 0, s) raises curses.error when the text reaches the lower right
\* corner of the screen or runs past it.
AddstrFails(y, s) ==
    y < 0 \/ y >= height \/ y * width + Len(s) >= height * width

\* The foreground has left the `with` block of main().
Released == pc["fg"] \in {"stopped", "aborted", "ended"}

\* Where an exception raised in thread t takes it.
Raise(t) == IF t = "fg" THEN "unwind" ELSE "crashed"

\* Book-keeping of a curses call made by thread t.
CursesCall(t) == lateWrite' = (lateWrite \/ (t = "bg" /\ Released))

\* The cursor after addstr(y, 0, s): behind the text, on a later row when
\* the text runs over the end of a row, with the wrap pending once a write
\* has filled a last column; at the lower right corner after a failed write,
\* and where it was when the row does not exist.
AfterAddstr(y, s) ==
    IF y < 0 \/ y >= height THEN cursor
    ELSE IF AddstrFails(y, s) THEN Cell(height - 1, width - 1, TRUE)
    ELSE Cell(y + (Len(s) \div width), Len(s) % width, Len(s) >= width)

\* The rows addstr(y, 0, s) writes text to.
RowsWritten(y, s) ==
    IF y < 0 \/ y >= height \/ s = <<>> THEN {}
    ELSE IF AddstrFails(y, s) THEN y..(height - 1)
    ELSE y..(y + ((Len(s) - 1) \div width))

\* clrtoeol() clears the row of the cursor from the cursor on; with a wrap
\* pending on the last row it clears nothing, and on another row it ends the
\* pending wrap.
ClrtoeolClears == ~(cursor.wrapped /\ cursor.y >= height - 1)
AfterClrtoeol ==
    IF ClrtoeolClears THEN Cell(cursor.y, cursor.x, FALSE) ELSE cursor

\* getstr() leaves the cursor at the start of the next row, or of the last.
AfterGetstr == Cell(Min(cursor.y + 1, height - 1), 0, FALSE)

\* The screen variables after a curses call, where they are followed.
Screen(c, r, p) ==
    /\ tracking' = tracking
    /\ cursor' = IF tracking THEN c ELSE cursor
    /\ rcursor' = IF tracking THEN r ELSE rcursor
    /\ painted' = IF tracking THEN p ELSE painted

(***************************************************************************)
(* __render(), lines 187-200, executed by thread t.                        *)
(***************************************************************************)
\* Where thread t continues after its render.
AfterRender(t) == IF t = "fg" THEN "p_addstr" ELSE "sleep"

\* cursor = self.screen.getyx()
RenderGetyx(t) ==
    /\ pc[t] = "r_getyx"
    /\ pc' = [pc EXCEPT ![t] = "r_slice"]
    /\ line' = IF t = "fg" THEN <<>> ELSE line
    /\ CursesCall(t)
    /\ Screen(cursor, [rcursor EXCEPT ![t] = <<cursor.y, cursor.x>>], painted)
    /\ UNCHANGED <<buffer, halt, geometry, term, pushed, inputs,
                   pushFailed, pollVars, renderVars, placed>>

\* window = self.buffer[-(self.height - 2):]
RenderSlice(t) ==
    /\ pc[t] = "r_slice"
    /\ window' = [window EXCEPT ![t] = Window(buffer, height)]
    /\ ry' = [ry EXCEPT ![t] = 0]
    /\ pc' = [pc EXCEPT ![t] =
                 IF Window(buffer, height) = <<>> THEN "r_move" ELSE "r_addstr"]
    /\ UNCHANGED <<buffer, halt, geometry, term, inputVars, pollVars, placed,
                   lateWrite, screenVars>>

\* self.screen.addstr(1 + y, 0, window[y])
RenderAddstr(t) ==
    /\ pc[t] = "r_addstr"
    /\ LET s == window[t][ry[t] + 1]
       IN  /\ pc' = [pc EXCEPT ![t] =
                        IF AddstrFails(1 + ry[t], s) THEN Raise(t)
                        ELSE "r_clrtoeol"]
           /\ Screen(AfterAddstr(1 + ry[t], s), rcursor,
                     painted \cup RowsWritten(1 + ry[t], s))
    /\ CursesCall(t)
    /\ UNCHANGED <<buffer, halt, geometry, term, inputVars, pollVars,
                   renderVars, placed>>

\* self.screen.clrtoeol(), and the next turn of the loop over y
RenderClrtoeol(t) ==
    /\ pc[t] = "r_clrtoeol"
    /\ ry' = [ry EXCEPT ![t] = ry[t] + 1]
    /\ pc' = [pc EXCEPT ![t] =
                 IF ry[t] + 1 < Len(window[t]) THEN "r_addstr" ELSE "r_move"]
    /\ CursesCall(t)
    /\ Screen(AfterClrtoeol, rcursor,
              IF ClrtoeolClears THEN painted \cup {cursor.y} ELSE painted)
    /\ UNCHANGED <<buffer, halt, geometry, term, inputVars, pollVars, window,
                   placed>>

\* self.screen.move(*cursor)
RenderMove(t) ==
    /\ pc[t] = "r_move"
    /\ pc' = [pc EXCEPT ![t] = "r_refresh"]
    /\ CursesCall(t)
    /\ Screen(Cell(rcursor[t][1], rcursor[t][2], FALSE), rcursor, painted)
    /\ UNCHANGED <<buffer, halt, geometry, term, inputVars, pollVars,
                   renderVars, placed>>

\* self.screen.refresh(): the terminal is in curses mode afterwards
RenderRefresh(t) ==
    /\ pc[t] = "r_refresh"
    /\ term' = "curses"
    /\ pc' = [pc EXCEPT ![t] = AfterRender(t)]
    /\ window' = [window EXCEPT ![t] = <<>>]
    /\ ry' = [ry EXCEPT ![t] = 0]
    /\ CursesCall(t)
    /\ Screen(cursor, [rcursor EXCEPT ![t] = <<0, 0>>], painted)
    /\ UNCHANGED <<buffer, halt, geometry, inputVars, pollVars, placed>>

(***************************************************************************)
(* __thread(), lines 168-185.                                              *)
(***************************************************************************)
\* Faulty variant of the loop condition below: while True
LoopForever == TRUE

\* while not self.halt
LoopCondition == ~halt

ThreadCheck ==
    /\ pc["bg"] = "check"
    /\ pc' = [pc EXCEPT !["bg"] = IF LoopCondition THEN "pull" ELSE "done"]
    /\ pullFailed' = FALSE
    /\ UNCHANGED <<buffer, halt, geometry, term, inputVars, msgs,
                   loaded, chunks, pulls, haltPulls, renderVars, placed,
                   lateWrite, screenVars>>

\* self.__pssst_pull() or [], with __pssst_pull() of lines 163-166
ThreadPull ==
    /\ pc["bg"] = "pull"
    /\ \E res \in PullResults :
          /\ (res.ok /\ res.msgs = <<>>) \/ pulls < MaxPulls
          /\ pulls' = IF res.ok /\ res.msgs = <<>> THEN pulls ELSE pulls + 1
          /\ pullFailed' = ~res.ok
          /\ haltPulls' = IF halt THEN haltPulls + 1 ELSE haltPulls
          /\ IF res.ok
             THEN /\ msgs' = res.msgs
                  /\ UNCHANGED <<buffer, placed>>
             ELSE /\ msgs' = <<>>
                  /\ buffer' = Append(buffer, ErrorLine(res.cause))
                  /\ UNCHANGED placed
    /\ pc' = [pc EXCEPT !["bg"] = "for"]
    /\ UNCHANGED <<halt, geometry, term, inputVars, loaded, chunks,
                   renderVars, lateWrite, screenVars>>

\* for data in ...: data.decode("utf-8"), the chunks, and the evaluation of
\* the operands of the += of line 182
ThreadFor ==
    /\ pc["bg"] = "for"
    /\ IF msgs = <<>>
       THEN /\ pc' = [pc EXCEPT !["bg"] = "r_getyx"]
            /\ UNCHANGED <<msgs, loaded, chunks>>
       ELSE IF ~ValidUtf8(Head(msgs))
       THEN /\ pc' = [pc EXCEPT !["bg"] = Raise("bg")]
            /\ UNCHANGED <<msgs, loaded, chunks>>
       ELSE /\ pc' = [pc EXCEPT !["bg"] = "iadd"]
            /\ chunks' = Chunks(Decode(Head(msgs)), width)
            /\ loaded' = buffer
            /\ msgs' = Tail(msgs)
    /\ UNCHANGED <<buffer, halt, geometry, term, inputVars, pulls,
                   pullFailed, haltPulls, renderVars, placed, lateWrite,
                   screenVars>>

\* self.buffer += [...]
ThreadIadd ==
    /\ pc["bg"] = "iadd"
    /\ buffer' = InplaceAdd(buffer, loaded, chunks)
    /\ placed' = Append(placed,
          [at |-> Len(buffer) + 1, lines |-> chunks])
    /\ loaded' = <<>>
    /\ chunks' = <<>>
    /\ pc' = [pc EXCEPT !["bg"] = "for"]
    /\ UNCHANGED <<halt, geometry, term, inputVars, msgs, pulls,
                   pullFailed, haltPulls, renderVars, lateWrite, screenVars>>

\* time.sleep(1)
ThreadSleep ==
    /\ pc["bg"] = "sleep"
    /\ pc' = [pc EXCEPT !["bg"] = "check"]
    /\ UNCHANGED <<buffer, halt, geometry, term, inputVars, pollVars,
                   renderVars, placed, lateWrite, screenVars>>

(***************************************************************************)
(* __enter__(), run(), __prompt(), exit(), __exit__() and main().          *)
(***************************************************************************)
\* __enter__(): curses.wrapper(setup) records the geometry, paints the title
\* (a title that fits the screen, filled to its width, leaves the cursor at
\* the start of row 1 with the wrap pending) and, on return from setup, ends
\* curses mode again.
Enter ==
    /\ pc["fg"] = "enter"
    /\ \E h \in ScreenHeights : height' = h
    /\ width' = ScreenWidth
    /\ term' = "endwin"
    /\ pc' = [pc EXCEPT !["fg"] = "run"]
    /\ Screen(Cell(1, 0, TRUE), rcursor, painted)
    /\ UNCHANGED <<buffer, halt, inputVars, pollVars, renderVars, placed,
                   lateWrite>>

\* run(), lines 225-227: start the daemon thread
Start ==
    /\ pc["fg"] = "run"
    /\ pc' = [pc EXCEPT !["fg"] = "r_getyx", !["bg"] = "check"]
    /\ UNCHANGED <<buffer, halt, geometry, term, inputVars, pollVars,
                   renderVars, placed, lateWrite, screenVars>>

\* __prompt(): self.screen.addstr(y, 0, prompt)
PromptAddstr ==
    /\ pc["fg"] = "p_addstr"
    /\ pc' = [pc EXCEPT !["fg"] =
                 IF AddstrFails(height - 1, PromptText) THEN Raise("fg")
                 ELSE "p_move"]
    /\ CursesCall("fg")
    /\ Screen(AfterAddstr(height - 1, PromptText), rcursor, painted)
    /\ UNCHANGED <<buffer, halt, geometry, term, inputVars, pollVars,
                   renderVars, placed>>

\* __prompt(): self.screen.move(y, len(prompt))
PromptMove ==
    /\ pc["fg"] = "p_move"
    /\ pc' = [pc EXCEPT !["fg"] = "p_clrtoeol"]
    /\ CursesCall("fg")
    /\ Screen(Cell(height - 1, Len(PromptText), FALSE), rcursor, painted)
    /\ UNCHANGED <<buffer, halt, geometry, term, inputVars, pollVars,
                   renderVars, placed>>

\* __prompt(): self.screen.clrtoeol()
PromptClrtoeol ==
    /\ pc["fg"] = "p_clrtoeol"
    /\ pc' = [pc EXCEPT !["fg"] = "getstr"]
    /\ pushFailed' = FALSE
    /\ CursesCall("fg")
    /\ Screen(AfterClrtoeol, rcursor, painted)
    /\ UNCHANGED <<buffer, halt, geometry, term, line, pushed, inputs,
                   pollVars, renderVars, placed>>

\* __prompt(): return self.screen.getstr().strip(), for the input raw, and
\* run(), lines 234-247, up to the call of Pssst.push()
Handle(raw) ==
    /\ pc["fg"] = "getstr"
    /\ LET e == LineTable[raw]
           ln == e.ln
       IN  /\ ln = <<>> \/ e.exit \/ inputs < MaxInputs
           /\ inputs' = IF ln = <<>> \/ e.exit THEN inputs ELSE inputs + 1
           /\ line' = ln
           /\ IF ln = <<>>
              THEN /\ pc' = [pc EXCEPT !["fg"] = "r_getyx"]
                   /\ UNCHANGED <<buffer, pushed>>
              ELSE IF e.exit
              THEN /\ pc' = [pc EXCEPT !["fg"] = "x_halt"]
                   /\ UNCHANGED <<buffer, pushed>>
              ELSE IF e.match
              THEN IF Len(e.parts) # 2
                   THEN /\ pc' = [pc EXCEPT !["fg"] = Raise("fg")]
                        /\ UNCHANGED <<buffer, pushed>>
                   ELSE /\ pc' = [pc EXCEPT !["fg"] = "push"]
                        /\ pushed' = <<e.parts>>
                        /\ UNCHANGED buffer
              ELSE /\ buffer' = Append(buffer, UnknownCommand)
                   /\ pc' = [pc EXCEPT !["fg"] = "r_getyx"]
                   /\ UNCHANGED pushed
    /\ Screen(AfterGetstr, rcursor, painted)
    /\ UNCHANGED <<halt, geometry, term, pushFailed, pollVars,
                   renderVars, placed, lateWrite>>

ReadLine == \E raw \in UserLines : Handle(raw)

\* __pssst_push(), lines 148-151: Pssst.push() returns or raises
PushReturn ==
    /\ pc["fg"] = "push"
    /\ \E out \in PushOutcomes :
          /\ pushFailed' = ~out.ok
          /\ IF out.ok THEN UNCHANGED buffer
             ELSE buffer' = Append(buffer, ErrorLine(out.cause))
    /\ pushed' = <<>>
    /\ line' = <<>>
    /\ pc' = [pc EXCEPT !["fg"] = "r_getyx"]
    /\ UNCHANGED <<halt, geometry, term, inputs, pollVars, renderVars,
                   placed, lateWrite, screenVars>>

\* The user interrupts the program while it waits for input.
Interrupt ==
    /\ pc["fg"] = "getstr"
    /\ pc' = [pc EXCEPT !["fg"] = Raise("fg")]
    /\ UNCHANGED <<buffer, halt, geometry, term, inputVars, pollVars,
                   renderVars, placed, lateWrite, screenVars>>

\* exit(): self.halt = True
ExitHalt ==
    /\ pc["fg"] = "x_halt"
    /\ halt' = TRUE
    /\ line' = <<>>
    /\ pc' = [pc EXCEPT !["fg"] = "x_join"]
    /\ UNCHANGED <<buffer, geometry, term, pushed, inputs, pushFailed,
                   pollVars, renderVars, placed, lateWrite, screenVars>>

\* Faulty variant of the join below: exit() does not wait.
ThreadJoinedNoWait == TRUE

\* Faulty variant of the join below: it returns only when __thread() has
\* returned, not when it has raised.
ThreadJoinedOnReturn == pc["bg"] = "done"

\* self.thread.join() returns once __thread() has returned or raised.
ThreadJoined == pc["bg"] \in {"done", "crashed"}

ExitJoin ==
    /\ pc["fg"] = "x_join"
    /\ ThreadJoined
    /\ pc' = [pc EXCEPT !["fg"] = "x_clear"]
    /\ UNCHANGED <<buffer, halt, geometry, term, inputVars, pollVars,
                   renderVars, placed, lateWrite, screenVars>>

\* exit(): self.screen.clear()
ExitClear ==
    /\ pc["fg"] = "x_clear"
    /\ pc' = [pc EXCEPT !["fg"] = "x_refresh"]
    /\ CursesCall("fg")
    /\ Screen(Cell(0, 0, FALSE), rcursor, painted)
    /\ UNCHANGED <<buffer, halt, geometry, term, inputVars, pollVars,
                   renderVars, placed>>

\* exit(): self.screen.refresh(), and the return from run()
ExitRefresh ==
    /\ pc["fg"] = "x_refresh"
    /\ term' = "curses"
    /\ pc' = [pc EXCEPT !["fg"] = "leave"]
    /\ CursesCall("fg")
    /\ UNCHANGED screenVars
    /\ UNCHANGED <<buffer, halt, geometry, inputVars, pollVars,
                   renderVars, placed>>

\* __exit__(): curses.endwin(), on return from run() and on an exception
ExitContext ==
    /\ pc["fg"] \in {"leave", "unwind"}
    /\ term' = "endwin"
    /\ pc' = [pc EXCEPT !["fg"] =
                 IF pc["fg"] = "leave" THEN "stopped" ELSE "aborted"]
    /\ line' = <<>>
    /\ UNCHANGED <<buffer, halt, geometry, pushed, inputs, pushFailed,
                   pollVars, renderVars, placed, lateWrite, screenVars>>

\* main() returns and sys.exit() ends the process; a daemon thread that is
\* still running ends with it.
ProcessExit ==
    /\ pc["fg"] \in {"stopped", "aborted"}
    /\ pc' = [pc EXCEPT !["fg"] = "ended",
                        !["bg"] = IF pc["bg"] \in {"done", "crashed"}
                                  THEN pc["bg"] ELSE "killed"]
    /\ UNCHANGED <<buffer, halt, geometry, term, inputVars, pollVars,
                   renderVars, placed, lateWrite, screenVars>>

Render(t) ==
    \/ RenderGetyx(t)
    \/ RenderSlice(t)
    \/ RenderAddstr(t)
    \/ RenderClrtoeol(t)
    \/ RenderMove(t)
    \/ RenderRefresh(t)

Foreground ==
    \/ Enter
    \/ Start
    \/ Render("fg")
    \/ PromptAddstr
    \/ PromptMove
    \/ PromptClrtoeol
    \/ ReadLine
    \/ PushReturn
    \/ Interrupt
    \/ ExitHalt
    \/ ExitJoin
    \/ ExitClear
    \/ ExitRefresh
    \/ ExitContext
    \/ ProcessExit

Poller ==
    \/ ThreadCheck
    \/ ThreadPull
    \/ ThreadFor
    \/ ThreadIadd
    \/ Render("bg")
    \/ ThreadSleep

Next == Foreground \/ Poller

Spec == Init /\ [][Next]_vars

\* The same program with the cursor and the painted rows followed.
ScreenInit == Constructed /\ tracking = TRUE

ScreenSpec == ScreenInit /\ [][Next]_vars

\* Once halt is set the threads are scheduled: the Poller thread takes its
\* next step and so does the foreground in exit() and on leaving the `with`
\* block.  Nothing obliges the user to type, and nothing is required of the
\* scheduler before halt is set.
Shutdown == ExitJoin \/ ExitClear \/ ExitRefresh \/ ExitContext

LiveSpec == Spec /\ WF_vars(halt /\ Poller) /\ WF_vars(halt /\ Shutdown)

\* Wrapping by itself: the Poller has pulled one message, on a screen of any
\* width from one column on, and handles it.
WrapBytes == {"a", "b", "\\xc3", "\\xa9"}
WrapMessages ==
    {m \in UNION {[1..n -> WrapBytes] : n \in 0..MaxMessage} : ValidUtf8(m)}

WrapInit ==
    /\ pc = [t \in Threads |-> IF t = "fg" THEN "r_getyx" ELSE "for"]
    /\ buffer = <<INTRO, <<>>>>
    /\ halt = FALSE
    /\ height = ScreenHeight
    /\ width \in 1..MaxWrapWidth
    /\ term = "endwin"
    /\ msgs \in {<<m>> : m \in WrapMessages}
    /\ loaded = <<>>
    /\ chunks = <<>>
    /\ window = [t \in Threads |-> <<>>]
    /\ ry = [t \in Threads |-> 0]
    /\ line = <<>>
    /\ pushed = <<>>
    /\ placed = <<>>
    /\ inputs = 0
    /\ pulls = 1
    /\ pullFailed = FALSE
    /\ pushFailed = FALSE
    /\ lateWrite = FALSE
    /\ haltPulls = 0
    /\ tracking = FALSE
    /\ cursor = Cell(0, 0, FALSE)
    /\ rcursor = [t \in Threads |-> <<0, 0>>]
    /\ painted = {}

WrapNext == ThreadFor \/ ThreadIadd

WrapSpec == WrapInit /\ [][WrapNext]_vars

TypeOK ==
    /\ halt \in BOOLEAN
    /\ lateWrite \in BOOLEAN
    /\ pullFailed \in BOOLEAN
    /\ pushFailed \in BOOLEAN
    /\ inputs \in 0..MaxInputs
    /\ pulls \in 0..MaxPulls
    /\ tracking \in BOOLEAN
    /\ haltPulls \in Nat

(***************************************************************************)
(* Vocabulary of the properties.                                           *)
(***************************************************************************)
\* Thread t has made a terminal write of a render and has one still to make.
InRenderWrites(t) == pc[t] \in {"r_clrtoeol", "r_move", "r_refresh"}

\* The foreground has drawn the prompt text and not yet finished the prompt.
InPromptWrites == pc["fg"] \in {"p_move", "p_clrtoeol"}

\* The Poller thread has returned from __thread() or died in it.
PollerTerminated == pc["bg"] \in {"done", "crashed"}

\* The foreground runs the loop of run().
SessionRunning ==
    pc["fg"] \in {"r_getyx", "r_slice", "r_addstr", "r_clrtoeol", "r_move",
                  "r_refresh", "p_addstr", "p_move", "p_clrtoeol", "getstr",
                  "push"}

\* The send grammar of the interactive text protocol: receiver, separator,
\* message, with the receiver an optional "pssst." and 2-63 word characters,
\* the separator non-word characters and the message any non-empty text.
IsReceiver(r) ==
    LET body == IF IsPrefix(PssstPrefix, r)
                THEN SubSeq(r, Len(PssstPrefix) + 1, Len(r)) ELSE r
        plain(b) == /\ Len(b) >= 2
                    /\ Len(b) <= 63
                    /\ \A i \in DOMAIN b : IsWord(b[i])
    IN  plain(r) \/ plain(body)

IsSeparator(x) == x # <<>> /\ \A i \in DOMAIN x : ~IsWord(x[i])

SendGrammar(ln) ==
    \E i \in 1..(Len(ln) - 2) :
        /\ ~IsWord(ln[i + 1])
        /\ IsReceiver(SubSeq(ln, 1, i))
        /\ \E j \in (i + 1)..(Len(ln) - 1) : IsSeparator(SubSeq(ln, i + 1, j))

\* The leading token of a line of the send grammar and the text behind the
\* run of separator characters that follows it.
TokenEnd(ln) ==
    LET from == IF /\ IsPrefix(PssstPrefix, ln)
                   /\ Len(ln) > Len(PssstPrefix)
                   /\ IsWord(ln[Len(PssstPrefix) + 1])
                THEN Len(PssstPrefix) ELSE 0
        ends == {i \in from..Len(ln) :
                    /\ \A k \in (from + 1)..i : IsWord(ln[k])
                    /\ (i = Len(ln) \/ ~IsWord(ln[i + 1]))}
    IN  CHOOSE i \in ends : \A k \in ends : i <= k

SeparatorEnd(ln) ==
    LET e == TokenEnd(ln)
        ends == {i \in e..Len(ln) :
                    /\ \A k \in (e + 1)..i : ~IsWord(ln[k])
                    /\ (i = Len(ln) \/ IsWord(ln[i + 1]))}
    IN  CHOOSE i \in ends : \A k \in ends : i <= k

LeadingToken(ln) == SubSeq(ln, 1, TokenEnd(ln))
TextAfterSeparator(ln) == SubSeq(ln, SeparatorEnd(ln) + 1, Len(ln))

\* The foreground returns from getstr(): it reads a line, or is interrupted
\* (then line stays empty and the foreground unwinds).
ReadStep == pc["fg"] = "getstr" /\ pc'["fg"] # "getstr"

IsErrorLine(s) == IsPrefix(<<"E","r","r","o","r",":"," ">>, s)

(***************************************************************************)
(* Properties.                                                             *)
(***************************************************************************)

\* C1: on the exit-command path the screen is cleared and released only
\* after the Poller thread has terminated: whenever the foreground is past
\* the join of exit() the Poller has returned or died, and no curses call of
\* the Poller has run after the release.
C1_JoinBeforeRelease ==
    (halt /\ pc["fg"] \in {"x_clear", "x_refresh", "leave", "stopped", "ended"})
        => (PollerTerminated /\ ~lateWrite)

C1_Witness ==
    /\ pc["fg"] = "stopped"
    /\ halt
    /\ pc["bg"] = "done"
    /\ Len(buffer) > 2

\* C2: two terminal writers are never active at once: a render of the Poller
\* never overlaps a render of the foreground loop or its prompt draw.
C2_OneWriterAtATime ==
    ~(InRenderWrites("bg") /\ (InRenderWrites("fg") \/ InPromptWrites))

\* C3: every step leaves the previous content of the buffer as a prefix of
\* the new content, so each append goes behind all earlier ones and nothing
\* is lost, altered or reordered.
C3_AppendOnly == [][IsPrefix(buffer, buffer')]_vars

\* The foreground appended while the Poller was between evaluating the
\* operands of its += and performing it.
C3_Witness ==
    /\ pc["bg"] = "iadd"
    /\ chunks # <<>>
    /\ Len(buffer) > Len(loaded)

\* C4: the lines of one pulled message stand in the buffer as one contiguous
\* run at the place they were added, and what a render has read of the
\* buffer contains each batch entirely or not at all.
WholeBatches(m) ==
    \A i \in DOMAIN placed :
        placed[i].at <= m => placed[i].at + Len(placed[i].lines) - 1 <= m

C4_BatchesAtomic ==
    /\ \A i \in DOMAIN placed :
          /\ placed[i].at + Len(placed[i].lines) - 1 <= Len(buffer)
          /\ SubSeq(buffer, placed[i].at,
                    placed[i].at + Len(placed[i].lines) - 1) = placed[i].lines
    /\ \A t \in Threads :
          pc[t] \in {"r_addstr", "r_clrtoeol"} =>
              \E m \in 0..Len(buffer) :
                  /\ window[t] = Window(SubSeq(buffer, 1, m), height)
                  /\ WholeBatches(m)

\* A two-line batch stands next to a line of the foreground and a render has
\* read its last line.
C4_Witness ==
    \E i \in DOMAIN placed : \E t \in Threads :
        /\ Len(placed[i].lines) >= 2
        /\ placed[i].at > 1
        /\ buffer[placed[i].at - 1] = UnknownCommand
        /\ pc[t] = "r_addstr"
        /\ window[t] # <<>>
        /\ window[t][Len(window[t])] = placed[i].lines[Len(placed[i].lines)]

\* C5: a failure of pull() never terminates the Poller: in an iteration
\* whose pull() failed the Poller still renders, sleeps and returns to the
\* loop condition.
C5_PullFailureKeepsPolling == pullFailed => pc["bg"] # "crashed"

\* C6: a failed push never ends the session: from the failure until the next
\* prompt is drawn halting stays false and the session stays Running.
C6_PushFailureKeepsRunning == pushFailed => (~halt /\ SessionRunning)

\* C7: for every input line of the send grammar, push is invoked once, with
\* the leading token as receiver and the text behind the separator run as
\* message.
C7_PushArguments ==
    [][(ReadStep /\ SendGrammar(line')) =>
          /\ pc'["fg"] = "push"
          /\ pushed' = <<<<LeadingToken(line'), TextAfterSeparator(line')>>>>]_vars

\* C8: no input line is dropped or fatal: handling a non-empty line other
\* than exit leaves the session Running, with one push invoked or one
\* Error line appended.
C8_NoLineFatal ==
    [][(ReadStep /\ line' # <<>> /\ StrLower(line') # ExitWord) =>
          \/ /\ pc'["fg"] = "push"
             /\ Len(pushed') = 1
             /\ buffer' = buffer
          \/ /\ pc'["fg"] = "r_getyx"
             /\ pushed' = <<>>
             /\ Len(buffer') = Len(buffer) + 1
             /\ IsErrorLine(buffer'[Len(buffer')])]_vars

\* C9: a non-empty line that is not exit and not of the send grammar invokes
\* no push and appends the one line "Error: Unknown command"; an empty line
\* invokes no push and appends nothing.
C9_UnknownCommand ==
    [][ReadStep =>
          /\ (line' = <<>> /\ pc'["fg"] # "unwind") =>
                (buffer' = buffer /\ pushed' = <<>> /\ pc'["fg"] = "r_getyx")
          /\ (/\ line' # <<>>
              /\ StrLower(line') # ExitWord
              /\ ~SendGrammar(line')) =>
                /\ buffer' = Append(buffer, UnknownCommand)
                /\ pushed' = <<>>
                /\ pc'["fg"] = "r_getyx"]_vars

\* An unknown command has just been answered.
C9_Witness ==
    /\ pc["fg"] = "r_getyx"
    /\ line # <<>>
    /\ ~SendGrammar(line)
    /\ buffer[Len(buffer)] = UnknownCommand
    /\ pushed = <<>>

\* C10: halting is false at first, changes only from false to true, and
\* only in the step of exit() that the foreground takes for a line equal to
\* exit ignoring case; no step of the Poller changes it.
C10_HaltingSetOnce ==
    /\ halt = FALSE
    /\ [][halt' # halt =>
             /\ ~halt
             /\ halt'
             /\ pc["fg"] = "x_halt"
             /\ pc'["fg"] = "x_join"
             /\ pc'["bg"] = pc["bg"]
             /\ StrLower(line) = ExitWord]_vars

C10_Witness == halt /\ pc["bg"] = "done" /\ pc["fg"] = "stopped"

\* C11: after halting is set the Poller begins at most one further pull():
\* the count of pull() calls made while the flag is set never exceeds one,
\* and after that one call the Poller never stands before a pull() again.
C11_OnePullAfterHalt ==
    /\ haltPulls <= 1
    /\ ~(haltPulls = 1 /\ pc["bg"] = "pull")

\* The Poller had passed its loop check when exit() set the flag, made its
\* one pull() and has stopped, while exit() waits in join().
C11_Witness ==
    /\ haltPulls = 1
    /\ pc["bg"] = "done"
    /\ pc["fg"] = "x_join"

\* C12: shutdown always completes: once halting is set, with the threads
\* scheduled and every pull() returning or failing, the Poller terminates,
\* exit() returns from join() and the session reaches Stopped.
C12_ShutdownCompletes ==
    halt ~> (PollerTerminated /\ pc["fg"] \in {"stopped", "ended"})

\* Shutdown has completed although the Poller died in its last iteration.
C12_Witness ==
    /\ halt
    /\ pc["fg"] = "stopped"
    /\ pc["bg"] = "crashed"
    /\ haltPulls = 1

\* C13: on every path out of the session the terminal is released and its
\* mode restored before the program ends: when the process has ended the
\* terminal is not in curses mode.
C13_TerminalRestored == pc["fg"] = "ended" => term # "curses"

\* C14: when the foreground leaves run() by an interrupt or a failure, the
\* Poller has stopped before the terminal was released, and no curses call
\* of the Poller runs after the release.
C14_PollerStoppedBeforeRelease ==
    /\ (pc["fg"] = "aborted" /\ pc["bg"] # "unstarted") => PollerTerminated
    /\ ~halt => ~lateWrite

\* C15: the window a render displays is tail(n) of the buffer for
\* n = height - 2: the last min(k, n) of its k lines, in order.
TailOf(buf, n) == SubSeq(buf, Len(buf) - Min(Len(buf), n) + 1, Len(buf))

C15_WindowIsTail ==
    [][\A t \in Threads :
          (pc[t] = "r_slice" /\ pc'[t] # "r_slice") =>
              window'[t] = TailOf(buffer, height - 2)]_vars

\* C16: wrapping a message text of length L to width W gives ceil(L/W)
\* lines, each but possibly the last W characters long and the last not
\* empty, whose concatenation in order is the text; the lines are appended
\* to the buffer in that order.
RECURSIVE Concat(_)
Concat(ss) == IF ss = <<>> THEN <<>> ELSE Head(ss) \o Concat(Tail(ss))

CeilDiv(l, w) == CHOOSE n \in 0..l : n * w >= l /\ (n = 0 \/ (n - 1) * w < l)

C16_WrapsText ==
    (pc["bg"] = "for" /\ pc'["bg"] = "iadd") =>
        LET text == Decode(Head(msgs))
            n == Len(chunks')
        IN  /\ n = CeilDiv(Len(text), width)
            /\ Concat(chunks') = text
            /\ \A j \in 1..(n - 1) : Len(chunks'[j]) = width
            /\ (n > 0 => Len(chunks'[n]) \in 1..width)

C16_AppendsInOrder ==
    (pc["bg"] = "iadd" /\ pc'["bg"] # "iadd") => buffer' = buffer \o chunks

C16_WrapRoundTrip == [][C16_WrapsText /\ C16_AppendsInOrder]_vars

\* A text with a two-byte character wrapped into full lines and a shorter
\* last line.
C16_Witness ==
    /\ pc["bg"] = "iadd"
    /\ width > 1
    /\ Len(chunks) >= 3
    /\ Len(chunks[Len(chunks)]) < width
    /\ \E j \in DOMAIN chunks : "e'" \in Range(chunks[j])

\* C17: once the geometry is known, every line of the buffer is at most
\* width characters long.
C17_LinesFitWidth ==
    pc["fg"] # "enter" => \A i \in DOMAIN buffer : Len(buffer[i]) <= width

\* C18: whenever the foreground waits in getstr() and the Poller runs and
\* is not in a render, the cursor is on the prompt row just behind the
\* prompt text.
C18_CursorAtPrompt ==
    (/\ tracking
     /\ pc["fg"] = "getstr"
     /\ pc["bg"] \in {"check", "pull", "for", "iadd", "sleep"})
        => (cursor.y = height - 1 /\ cursor.x = Len(PromptText))

\* C19: renders write and clear rows 1..height-2 only, never the title row
\* or the prompt row.
C19_RenderRows == painted \subseteq 1..(height - 2)

\* C20: the Poller thread ends only after halting has been set.
C20_PollerEndsOnlyAfterHalt == PollerTerminated => halt

====
